---- MODULE Spec2Model ----
(***************************************************************************)
(* PyMu Player (src/PyMuPlayer.py): the folder lister and the playback     *)
(* controller, as a state machine over the module's globals, the widgets   *)
(* the handlers read back (the list widget, the four transport buttons,    *)
(* the volume slider), the settings store, the media player and the        *)
(* filesystem.                                                             *)
(*                                                                         *)
(* Names are sequences of character codes, so that startswith("."),        *)
(* suffix, lower() and the sort key are computed as the code computes      *)
(* them.  Paths are sequences of names (the root is the empty sequence).   *)
(* Rows and the index are 0-based as in the code; -1 is "no row".          *)
(***************************************************************************)
EXTENDS Integers, Sequences, FiniteSets, TLC

(***************************************************************************)
(* Bounds of the model.                                                    *)
(***************************************************************************)
\* Pixel length of a slider.  A mouse release lands in its middle or one
\* pixel outside the widget on either side; its handle is dragged to one of
\* its ends.
SliderPixels == 2
\* The engine reports a time within the first second and one within second
\* MaxSeconds.
MaxSeconds == 1

(***************************************************************************)
(* Characters and names.                                                   *)
(***************************************************************************)
Dot == 46

\* str.lower() on one character (ASCII)
LowerChar(c) == IF c >= 65 /\ c <= 90 THEN c + 32 ELSE c

\* str.lower()
Lower(name) == [i \in 1..Len(name) |-> LowerChar(name[i])]

\* str.startswith(".")
StartsWithDot(name) == Len(name) >= 1 /\ name[1] = Dot

\* str.rfind("."), 1-based; 0 when there is none
RFindDot(name) ==
    LET at == {i \in 1..Len(name) : name[i] = Dot}
    IN  IF at = {} THEN 0 ELSE CHOOSE i \in at : \A j \in at : j <= i

\* pathlib's PurePath.suffix: the last ".xxx" of the name, "" when the only
\* dot leads or ends the name
Suffix(name) ==
    LET i == RFindDot(name)
    IN  IF i > 1 /\ i < Len(name) THEN SubSeq(name, i, Len(name)) ELSE <<>>

\* Python's order on str: first differing character, a prefix is smaller
RECURSIVE StrLess(_, _)
StrLess(a, b) ==
    IF b = <<>> THEN FALSE
    ELSE IF a = <<>> THEN TRUE
    ELSE IF a[1] # b[1] THEN a[1] < b[1]
    ELSE StrLess(Tail(a), Tail(b))

\* line 45
EXTENSIONS ==
    { <<46, 97, 97, 99>>,          \* .aac
      <<46, 97, 105, 102>>,        \* .aif
      <<46, 97, 105, 102, 102>>,   \* .aiff
      <<46, 102, 108, 97, 99>>,    \* .flac
      <<46, 109, 112, 51>>,        \* .mp3
      <<46, 111, 103, 103>>,       \* .ogg
      <<46, 119, 97, 118>> }       \* .wav

(***************************************************************************)
(* The filesystem: a fixed tree, of which one folder (with what it holds)   *)
(* can be removed and put back while the program runs.                     *)
(***************************************************************************)
N_h     == <<104>>                                       \* h
N_Music == <<77, 117, 115, 105, 99>>                     \* Music
N_Live  == <<76, 105, 118, 101>>                         \* Live
N_cfg   == <<46, 99, 102, 103>>                          \* .cfg
N_a     == <<97, 46, 102, 108, 97, 99>>                  \* a.flac
N_B     == <<66, 46, 77, 80, 51>>                        \* B.MP3
N_notes == <<110, 111, 116, 101, 115, 46, 116, 120, 116>> \* notes.txt
N_x     == <<120, 46, 111, 103, 103>>                    \* x.ogg
N_t     == <<116, 46, 119, 97, 118>>                     \* t.wav
N_gone  == <<103, 111, 110, 101>>                        \* gone

Root     == <<>>
\* line 46
HOME     == <<N_h>>
MusicDir == <<N_h, N_Music>>
LiveDir  == <<N_h, N_Music, N_Live>>
\* a path that never exists (a folder deleted before the program starts)
GoneDir  == <<N_h, N_gone>>

AllDirs == {Root, HOME, MusicDir, LiveDir}
Removable == {LiveDir}

File(n) == [name |-> n, is_dir |-> FALSE]
Dir(n)  == [name |-> n, is_dir |-> TRUE]

Content(p) ==
    IF p = Root THEN {Dir(N_h)}
    ELSE IF p = HOME THEN {File(N_B), File(N_notes), Dir(N_Music), File(N_cfg), File(N_a)}
    ELSE IF p = MusicDir THEN {File(N_x), Dir(N_Live)}
    ELSE IF p = LiveDir THEN {File(N_t)}
    ELSE {}


Parent(p) == IF p = <<>> THEN p ELSE SubSeq(p, 1, Len(p) - 1)

\* Path.is_dir(), with the folders in rm removed
is_dir(p, rm) ==
    /\ p \in AllDirs
    /\ \A i \in 1..Len(p) : SubSeq(p, 1, i) \notin rm

\* Path.iterdir()
iterdir(p, rm) ==
    {e \in Content(p) : e.is_dir => is_dir(Append(p, e.name), rm)}

(***************************************************************************)
(* The folder lister.                                                      *)
(***************************************************************************)
\* the sort key without lower(): names compared by their character codes
KeyLess_case_sensitive(e, f) ==
    \/ e.is_dir /\ ~f.is_dir
    \/ e.is_dir = f.is_dir /\ StrLess(e.name, f.name)

\* the sort key (not f.is_dir(), f.name.lower()), compared as Python
\* compares tuples
KeyLess(e, f) ==
    \/ e.is_dir /\ ~f.is_dir
    \/ e.is_dir = f.is_dir /\ StrLess(Lower(e.name), Lower(f.name))

\* sorted(entries, key=...)
RECURSIVE sorted(_)
sorted(S) ==
    IF S = {} THEN <<>>
    ELSE LET m == CHOOSE e \in S : \A f \in S : ~KeyLess(f, e)
         IN  <<m>> \o sorted(S \ {m})

Names(seq) == [i \in 1..Len(seq) |-> seq[i].name]

\* lines 96-105: the listing made at startup, of a folder of which iterdir()
\* yields the entries scan
entries_sorted_of(scan) ==
    LET entries == {file \in scan :
                      ~StartsWithDot(file.name)
                      /\ (file.is_dir \/ Lower(Suffix(file.name)) \in EXTENSIONS)}
    IN  sorted(entries)

\* lines 96-105, on the filesystem of the model
entries_sorted(loc, rm) == entries_sorted_of(iterdir(loc, rm))

files(loc, rm) == Names(entries_sorted(loc, rm))

(***************************************************************************)
(* Numbers.                                                                *)
(***************************************************************************)
\* Python's round() of the fraction n/d (d > 0): to nearest, ties to even
Round(n, d) ==
    LET q == n \div d
        r == n - q * d
    IN  IF 2 * r < d THEN q
        ELSE IF 2 * r > d THEN q + 1
        ELSE IF q % 2 = 0 THEN q ELSE q + 1

\* int(time / 1000): truncation towards zero
IntDiv1000(time) ==
    IF time >= 0 THEN time \div 1000 ELSE -((-time) \div 1000)

Clamp(v, lo, hi) == IF v < lo THEN lo ELSE IF v > hi THEN hi ELSE v

\* SliderClick.eventFilter, the value handed to the callback on a mouse
\* release at pixel pos of a slider that is size pixels long
SliderClickValue(horizontal, pos, size, minimum, maximum) ==
    IF horizontal
    THEN Round(pos * (maximum - minimum), size)
    ELSE Round((size - pos) * (maximum - minimum), size)

(***************************************************************************)
(* State.                                                                  *)
(***************************************************************************)
VARIABLES
    settings,           \* the QSettings store: a function from the keys set
    location,           \* global location
    volume,             \* global volume
    current,            \* global current (seconds)
    length,             \* global length (seconds)
    index,              \* global index
    is_muted,           \* global is_muted
    is_playing,         \* global is_playing
    title,              \* global title
    files_list,         \* the texts of files_list's items, in row order
    currentRow,         \* files_list.currentRow()
    back_enabled,       \* back_button.isEnabled()
    stop_enabled,       \* stop_button.isEnabled()
    play_pause_enabled, \* play_pause_button.isEnabled()
    forward_enabled,    \* forward_button.isEnabled()
    volume_bar,         \* volume_bar.value()
    player_source,      \* player.source(), <<>> when none was set
    player_state,       \* player.playbackState()
    output_volume,      \* output.volume(), in percent
    output_muted,       \* output.isMuted()
    cmds,               \* the engine commands the last handler issued
    crashed,            \* a handler raised: PyQt aborts the process
    removed,            \* the folders currently removed from the filesystem
    scanned,            \* what iterdir() yields for the folder the lister is
                        \* run on by itself (ListerSpec); unused in Spec
    last                \* the last event handled

vars == <<settings, location, volume, current, length, index, is_muted,
          is_playing, title, files_list, currentRow, back_enabled,
          stop_enabled, play_pause_enabled, forward_enabled, volume_bar,
          player_source, player_state, output_volume, output_muted, cmds,
          crashed, removed, scanned, last>>

\* the program's state as one record, which the handlers below transform
State ==
    [settings |-> settings, location |-> location, volume |-> volume,
     current |-> current, length |-> length, index |-> index,
     is_muted |-> is_muted, is_playing |-> is_playing, title |-> title,
     files_list |-> files_list, currentRow |-> currentRow,
     back_enabled |-> back_enabled, stop_enabled |-> stop_enabled,
     play_pause_enabled |-> play_pause_enabled,
     forward_enabled |-> forward_enabled, volume_bar |-> volume_bar,
     player_source |-> player_source, player_state |-> player_state,
     output_volume |-> output_volume, output_muted |-> output_muted,
     cmds |-> cmds, crashed |-> crashed]

\* the state a handler is entered with: no command issued yet
Entry == [State EXCEPT !.cmds = <<>>]

\* the next state is the record s
Becomes(s) ==
    /\ settings' = s.settings
    /\ location' = s.location
    /\ volume' = s.volume
    /\ current' = s.current
    /\ length' = s.length
    /\ index' = s.index
    /\ is_muted' = s.is_muted
    /\ is_playing' = s.is_playing
    /\ title' = s.title
    /\ files_list' = s.files_list
    /\ currentRow' = s.currentRow
    /\ back_enabled' = s.back_enabled
    /\ stop_enabled' = s.stop_enabled
    /\ play_pause_enabled' = s.play_pause_enabled
    /\ forward_enabled' = s.forward_enabled
    /\ volume_bar' = s.volume_bar
    /\ player_source' = s.player_source
    /\ player_state' = s.player_state
    /\ output_volume' = s.output_volume
    /\ output_muted' = s.output_muted
    /\ cmds' = s.cmds
    /\ crashed' = s.crashed

(***************************************************************************)
(* The settings store.                                                     *)
(***************************************************************************)
\* settings.value(name, default)
value(store, name, default) ==
    IF name \in DOMAIN store THEN store[name] ELSE default

\* settings.setValue(name, v)
setValue(store, name, v) ==
    [k \in DOMAIN store \cup {name} |-> IF k = name THEN v ELSE store[k]]

\* lines 83-85
save_setting(s, name, v) == [s EXCEPT !.settings = setValue(@, name, v)]

(***************************************************************************)
(* The media player and the audio output, as Qt documents them.            *)
(***************************************************************************)
NoSource == <<>>

Issue(s, c) == [s EXCEPT !.cmds = Append(@, c)]

\* player.setSource(url): the new media is loaded and playback is stopped
player_setSource(s, path) ==
    [Issue(s, <<"setSource", path>>) EXCEPT
        !.player_source = path, !.player_state = "Stopped"]

\* player.play(): nothing to play without a source
player_play(s) ==
    [Issue(s, <<"play">>) EXCEPT
        !.player_state = IF s.player_source = NoSource THEN @ ELSE "Playing"]

\* player.pause()
player_pause(s) ==
    [Issue(s, <<"pause">>) EXCEPT
        !.player_state = IF s.player_source = NoSource THEN @ ELSE "Paused"]

\* player.stop()
player_stop(s) ==
    [Issue(s, <<"stop">>) EXCEPT !.player_state = "Stopped"]

\* player.setPosition(ms)
player_setPosition(s, ms) == Issue(s, <<"setPosition", ms>>)

\* output.setVolume(volume / 100): Qt clamps the volume to 0.0 .. 1.0
output_setVolume(s, percent) ==
    [Issue(s, <<"setVolume", percent>>) EXCEPT
        !.output_volume = Clamp(percent, 0, 100)]

\* output.setMuted(b)
output_setMuted(s, b) ==
    [Issue(s, <<"setMuted", b>>) EXCEPT !.output_muted = b]

(***************************************************************************)
(* The handlers, each a function from the state it is entered with (and    *)
(* the filesystem's removed folders rm) to the state it leaves.            *)
(***************************************************************************)
\* verify_location without its save_setting
verify_location_unsaved(s, rm) ==
    IF ~is_dir(s.location, rm) THEN [s EXCEPT !.location = HOME] ELSE s

\* lines 87-92
verify_location(s, rm) ==
    IF ~is_dir(s.location, rm)
    THEN save_setting([s EXCEPT !.location = HOME], "location", HOME)
    ELSE s

\* lines 133-139
change_volume(s, new_volume) ==
    LET s1 == [s EXCEPT !.volume = new_volume]
        s2 == output_setVolume(s1, s1.volume)
        s3 == [s2 EXCEPT !.volume_bar = Clamp(s2.volume, 0, 100)]
    IN  save_setting(s3, "volume", s3.volume)

\* lines 145-150
update_length(s, time) == [s EXCEPT !.length = IntDiv1000(time)]

\* lines 156-161
update_current(s, time) == [s EXCEPT !.current = IntDiv1000(time)]

\* files_list.count()
count(s) == Len(s.files_list)

\* files_list.setCurrentRow(row): a row outside the list leaves no current
\* item
setCurrentRow(s, row) ==
    [s EXCEPT !.currentRow = IF row >= 0 /\ row < count(s) THEN row ELSE -1]

\* lines 321-330
update_skip_buttons(s) ==
    LET s1 == [s EXCEPT !.back_enabled = FALSE, !.forward_enabled = FALSE]
    IN  IF s1.index = -1 THEN s1
        ELSE [s1 EXCEPT !.back_enabled = (s1.index > 0),
                        !.forward_enabled = (s1.index < count(s1) - 1)]

\* stop without stop_button.setEnabled(False)
stop_leaving_button(s) ==
    LET s1 == player_stop(s)
        s2 == [s1 EXCEPT !.is_playing = FALSE,
                         !.play_pause_enabled = FALSE,
                         !.title = <<>>,
                         !.index = -1]
        s3 == [s2 EXCEPT !.length = 0, !.current = 0]
    IN  [s3 EXCEPT !.back_enabled = FALSE, !.forward_enabled = FALSE]

\* stop without update_current(0)
stop_keeping_current(s) ==
    LET s1 == player_stop(s)
        s2 == [s1 EXCEPT !.is_playing = FALSE,
                         !.play_pause_enabled = FALSE,
                         !.stop_enabled = FALSE,
                         !.title = <<>>,
                         !.index = -1]
        s3 == [s2 EXCEPT !.length = 0]
    IN  [s3 EXCEPT !.back_enabled = FALSE, !.forward_enabled = FALSE]

\* lines 177-190
stop(s) ==
    LET s1 == player_stop(s)
        s2 == [s1 EXCEPT !.is_playing = FALSE,
                         !.play_pause_enabled = FALSE,
                         !.stop_enabled = FALSE,
                         !.title = <<>>,
                         !.index = -1]
        s3 == update_length(s2, 0)
        s4 == update_current(s3, 0)
    IN  update_skip_buttons(s4)

\* play without is_playing = True
play_unflagged(s) == player_play(s)

\* lines 192-197
play(s) == [player_play(s) EXCEPT !.is_playing = TRUE]

\* play_pause without player.pause()
play_pause_no_pause(s) ==
    IF s.is_playing
    THEN [s EXCEPT !.is_playing = FALSE]
    ELSE [player_play(s) EXCEPT !.is_playing = TRUE]

\* lines 199-207
play_pause(s) ==
    IF s.is_playing
    THEN [player_pause(s) EXCEPT !.is_playing = FALSE]
    ELSE play(s)

\* change_time setting current itself
change_time_and_current(s, time) ==
    [player_setPosition(s, time * 1000) EXCEPT !.current = time]

\* lines 228-230
change_time(s, time) == player_setPosition(s, time * 1000)

\* mute without output.setMuted
mute_flag_only(s) == [s EXCEPT !.is_muted = ~s.is_muted]

\* lines 257-262
mute(s) ==
    LET s1 == [s EXCEPT !.is_muted = ~s.is_muted]
    IN  output_setMuted(s1, s1.is_muted)

\* lines 268-278: the names update_files adds to the list, for a folder of
\* which iterdir() yields the entries scan
listed_of(scan) ==
    LET entries == {file \in scan :
                      ~StartsWithDot(file.name)
                      /\ (file.is_dir \/ Lower(Suffix(file.name)) \in EXTENSIONS)}
        entries_sorted_ == sorted(entries)
    IN  Names(entries_sorted_)

\* lines 268-278, on the filesystem of the model
listed(loc, rm) == listed_of(iterdir(loc, rm))

\* listed, tabulated for every folder and every state of the filesystem
\* (joined with the empty function so that the table is computed once)
Listed ==
    [loc \in AllDirs, rm \in SUBSET Removable |-> listed(loc, rm)] @@ <<>>

\* lines 264-278
update_files(s, rm) ==
    LET s1 == verify_location(s, rm)
        s2 == [s1 EXCEPT !.files_list = <<>>, !.currentRow = -1]
    IN  [s2 EXCEPT !.files_list = Listed[s2.location, rm]]

\* lines 280-284
change_location(s, rm) ==
    update_files(save_setting(s, "location", s.location), rm)

\* home stopping the playback
home_stopping(s, rm) ==
    change_location(stop([s EXCEPT !.location = HOME]), rm)

\* lines 286-290
home(s, rm) == change_location([s EXCEPT !.location = HOME], rm)

\* lines 292-296
go_up(s, rm) == change_location([s EXCEPT !.location = Parent(s.location)], rm)

\* lines 303-319; item is the row of the item passed, -1 for None, on
\* which item.text() raises
double_click(s, item, rm) ==
    IF item = -1 THEN [s EXCEPT !.crashed = TRUE]
    ELSE
    LET text == s.files_list[item + 1]
        selected == Append(s.location, text)
    IN  IF is_dir(selected, rm)
        THEN change_location([s EXCEPT !.location = selected], rm)
        ELSE LET s1 == player_setSource(s, selected)
                 s2 == [s1 EXCEPT !.title = text,
                                  !.play_pause_enabled = TRUE,
                                  !.stop_enabled = TRUE,
                                  !.currentRow = item]
                 s3 == [s2 EXCEPT !.index = s2.currentRow]
             IN  update_skip_buttons(play(s3))

\* lines 171-175
previous(s, rm) ==
    IF s.index > 0
    THEN LET s1 == setCurrentRow(s, s.index - 1)
         IN  double_click(s1, s1.currentRow, rm)
    ELSE s

\* lines 216-220 (the module's own next(), the skip-forward handler)
next(s, rm) ==
    IF s.index < count(s) - 1
    THEN LET s1 == setCurrentRow(s, s.index + 1)
         IN  double_click(s1, s1.currentRow, rm)
    ELSE s

\* lines 333-336
finished(s, status, rm) ==
    IF status = "EndOfMedia" THEN next(s, rm) ELSE s

(***************************************************************************)
(* Startup: the module's top-level code, lines 79-449.                     *)
(***************************************************************************)
EmptyStore == [k \in {} |-> 0]

\* the settings stores a start can find: the location key missing (a first
\* run), or holding a folder that exists, that may have been removed, or
\* that is gone; the volume key missing or holding a value of the slider
InitialStores ==
    LET locs == {EmptyStore} \cup
                {setValue(EmptyStore, "location", l) :
                    l \in {MusicDir, LiveDir, GoneDir}}
    IN  locs \cup {setValue(st, "volume", 0) : st \in locs}

startup(store, rm) ==
    LET s0 == [settings |-> store,
               location |-> value(store, "location", HOME),      \* line 80
               volume |-> value(store, "volume", 100),           \* line 81
               current |-> 0, length |-> 0, index |-> -1,
               is_muted |-> FALSE, is_playing |-> FALSE, title |-> <<>>,
               files_list |-> <<>>, currentRow |-> -1,
               back_enabled |-> FALSE,                           \* line 344
               stop_enabled |-> FALSE,                           \* line 350
               play_pause_enabled |-> TRUE,                      \* line 351
               forward_enabled |-> FALSE,                        \* line 359
               volume_bar |-> 0,
               player_source |-> NoSource, player_state |-> "Stopped",
               output_volume |-> 100, output_muted |-> FALSE,
               cmds |-> <<>>, crashed |-> FALSE]
        s1 == verify_location(s0, rm)                            \* line 94
        s2 == change_volume(s1, s1.volume)                       \* line 391
    IN  [s2 EXCEPT !.files_list = files(s1.location, rm)]        \* lines 427-428

\* the current state is the record s
Is(s) ==
    /\ settings = s.settings
    /\ location = s.location
    /\ volume = s.volume
    /\ current = s.current
    /\ length = s.length
    /\ index = s.index
    /\ is_muted = s.is_muted
    /\ is_playing = s.is_playing
    /\ title = s.title
    /\ files_list = s.files_list
    /\ currentRow = s.currentRow
    /\ back_enabled = s.back_enabled
    /\ stop_enabled = s.stop_enabled
    /\ play_pause_enabled = s.play_pause_enabled
    /\ forward_enabled = s.forward_enabled
    /\ volume_bar = s.volume_bar
    /\ player_source = s.player_source
    /\ player_state = s.player_state
    /\ output_volume = s.output_volume
    /\ output_muted = s.output_muted
    /\ cmds = s.cmds
    /\ crashed = s.crashed

\* the handler run last and its argument: the row double-clicked; for the
\* startup, a refresh and go_up, 1 when the folder to list was found to
\* exist and 0 when it was not; for finished, 1 for EndOfMedia and 0 for
\* another status; 0 otherwise
Event(op, arg) == [op |-> op, arg |-> arg]

Init ==
    \E store \in InitialStores, rm \in SUBSET Removable :
        /\ Is(startup(store, rm))
        /\ removed = rm
        /\ scanned = {}
        /\ last = Event("startup",
                        IF is_dir(value(store, "location", HOME), rm)
                        THEN 1 ELSE 0)

(***************************************************************************)
(* The events: the user's (each through the widget the code connects to    *)
(* the handler, so only while that widget is enabled), the engine's        *)
(* callbacks, and changes of the filesystem.                               *)
(***************************************************************************)
\* the positions a mouse release on a slider can have
ClickPixels == {-1, SliderPixels \div 2, SliderPixels + 1}

\* the values the volume slider's handle can be dragged to
DragValues == {Round(p * 100, SliderPixels) : p \in {0, SliderPixels}}

\* the times (ms) the engine reports
Times == {999, 1000 * MaxSeconds + 999}

Handled(op, arg, s) ==
    /\ ~crashed
    /\ Becomes(s)
    /\ last' = Event(op, arg)
    /\ UNCHANGED <<removed, scanned>>

\* files_list.itemDoubleClicked (line 429): the click makes the item current
DoubleClick(row) ==
    /\ row \in 0 .. Len(files_list) - 1
    /\ Handled("double_click", row,
               double_click(setCurrentRow(Entry, row), row, removed))

\* back_button.clicked (line 343)
ClickBack ==
    /\ back_enabled
    /\ Handled("previous", 0, previous(Entry, removed))

\* stop_button.clicked (line 349)
ClickStop ==
    /\ stop_enabled
    /\ Handled("stop", 0, stop(Entry))

\* play_pause_button.clicked (line 353)
ClickPlayPause ==
    /\ play_pause_enabled
    /\ Handled("play_pause", 0, play_pause(Entry))

\* forward_button.clicked (line 358)
ClickForward ==
    /\ forward_enabled
    /\ Handled("next", 0, next(Entry, removed))

\* time_bar.sliderMoved (line 366): the handle is dragged to a value of
\* the slider's range 0 .. length, which a range of one value does not
\* allow
TimeBarMoved(t) ==
    /\ length > 0
    /\ t \in 0 .. length
    /\ Handled("change_time", 0, change_time(Entry, t))

\* a mouse release on time_bar (lines 367-368), a horizontal slider from 0
\* to length
TimeBarClick(pos) ==
    LET t == SliderClickValue(TRUE, pos, SliderPixels, 0, length)
    IN  Handled("change_time", 0, change_time(Entry, t))

\* volume_bar.sliderMoved (line 388)
VolumeBarMoved(v) ==
    Handled("change_volume", 0, change_volume(Entry, v))

\* a mouse release on volume_bar (lines 389-390), a vertical slider from 0
\* to 100
VolumeBarClick(pos) ==
    LET v == SliderClickValue(FALSE, pos, SliderPixels, 0, 100)
    IN  Handled("change_volume", 0, change_volume(Entry, v))

\* mute_button.clicked (line 386)
ClickMute == Handled("mute", 0, mute(Entry))

\* home_button.clicked (line 401)
ClickHome == Handled("home", 0, home(Entry, removed))

\* refresh_button.clicked (line 406)
ClickRefresh ==
    Handled("update_files", IF is_dir(location, removed) THEN 1 ELSE 0,
            update_files(Entry, removed))

\* up_button.clicked (line 411)
ClickUp ==
    Handled("go_up", IF is_dir(Parent(location), removed) THEN 1 ELSE 0,
            go_up(Entry, removed))

\* player.durationChanged (line 167)
DurationChanged(ms) ==
    /\ player_source # NoSource
    /\ Handled("update_length", 0, update_length(Entry, ms))

\* player.positionChanged (line 168)
PositionChanged(ms) ==
    /\ player_source # NoSource
    /\ Handled("update_current", 0, update_current(Entry, ms))

\* player.mediaStatusChanged (line 169) with EndOfMedia: the engine played
\* the source to its end and stopped
EndOfMedia ==
    /\ player_state = "Playing"
    /\ Handled("finished", 1,
               finished([Entry EXCEPT !.player_state = "Stopped"],
                        "EndOfMedia", removed))

\* player.mediaStatusChanged (line 169) with another status
LoadedMedia ==
    /\ player_source # NoSource
    /\ Handled("finished", 0, finished(Entry, "LoadedMedia", removed))

\* somebody removes a folder, or puts it back
RemoveFolder(d) ==
    /\ ~crashed
    /\ d \notin removed
    /\ removed' = removed \cup {d}
    /\ UNCHANGED <<settings, location, volume, current, length, index,
                   is_muted, is_playing, title, files_list, currentRow,
                   back_enabled, stop_enabled, play_pause_enabled,
                   forward_enabled, volume_bar, player_source, player_state,
                   output_volume, output_muted, cmds, crashed, scanned,
                   last>>

RestoreFolder(d) ==
    /\ ~crashed
    /\ d \in removed
    /\ removed' = removed \ {d}
    /\ UNCHANGED <<settings, location, volume, current, length, index,
                   is_muted, is_playing, title, files_list, currentRow,
                   back_enabled, stop_enabled, play_pause_enabled,
                   forward_enabled, volume_bar, player_source, player_state,
                   output_volume, output_muted, cmds, crashed, scanned,
                   last>>

Next ==
    \/ \E row \in 0 .. Len(files_list) - 1 : DoubleClick(row)
    \/ ClickBack
    \/ ClickStop
    \/ ClickPlayPause
    \/ ClickForward
    \/ \E t \in {0, MaxSeconds} : TimeBarMoved(t)
    \/ \E pos \in ClickPixels : TimeBarClick(pos)
    \/ \E v \in DragValues : VolumeBarMoved(v)
    \/ \E pos \in ClickPixels : VolumeBarClick(pos)
    \/ ClickMute
    \/ ClickHome
    \/ ClickRefresh
    \/ ClickUp
    \/ \E ms \in Times : DurationChanged(ms)
    \/ \E ms \in Times : PositionChanged(ms)
    \/ EndOfMedia
    \/ LoadedMedia
    \/ \E d \in Removable : RemoveFolder(d)
    \/ \E d \in Removable : RestoreFolder(d)

Spec == Init /\ [][Next]_vars

(***************************************************************************)
(* The lister by itself: the program starts in a home folder holding any   *)
(* of the entries below (lines 96-107), and the list is refreshed          *)
(* (lines 264-278).                                                        *)
(***************************************************************************)
LabEntries ==
    { Dir(<<90, 101, 100>>),                              \* Zed/
      Dir(<<97, 108, 112, 104, 97>>),                     \* alpha/
      Dir(<<46, 103, 105, 116>>),                         \* .git/
      Dir(<<100, 46, 116, 120, 116>>),                    \* d.txt/
      File(<<67, 46, 79, 103, 103>>),                     \* C.Ogg
      File(<<98, 46, 119, 97, 118>>),                     \* b.wav
      File(<<46, 120, 46, 109, 112, 51>>),                \* .x.mp3
      File(<<110, 46, 116, 120, 116>>),                   \* n.txt
      File(<<109, 112, 51>>),                             \* mp3
      File(<<101, 46, 119, 97, 118, 46, 116, 120, 116>>) }  \* e.wav.txt

ListerInit ==
    \E scan \in SUBSET LabEntries :
        /\ Is([startup(EmptyStore, {}) EXCEPT
                  !.files_list = Names(entries_sorted_of(scan))])
        /\ removed = {}
        /\ scanned = scan
        /\ last = Event("startup", 1)

\* refresh_button.clicked (line 406)
ListerRefresh ==
    /\ Becomes([update_files(Entry, removed) EXCEPT
                  !.files_list = listed_of(scanned)])
    /\ last' = Event("update_files", 1)
    /\ UNCHANGED <<removed, scanned>>

ListerNext == ListerRefresh

ListerSpec == ListerInit /\ [][ListerNext]_vars

(***************************************************************************)
(* Properties.                                                             *)
(***************************************************************************)
\* the entry at a row of the list, as a path, and whether a double click
\* on it takes double_click's folder branch
EntryPath(row) == Append(location, files_list[row + 1])
IsDirEntry(row) == is_dir(EntryPath(row), removed)

\* the rows of the list displayed
Rows == 0 .. Len(files_list) - 1

\* C1: in every reachable state, is_playing implies that a file is loaded
\* (index is not -1).
C1_PlayingImpliesLoaded == is_playing => index # -1

\* C2: in every reachable state, index is -1 or a row of the list
\* currently displayed.
C2_IndexInList == index = -1 \/ (0 <= index /\ index < Len(files_list))

\* C3: a double click on a folder entry, from any state, ends Stopped
\* (index = -1, not playing) with location set to that folder and the list
\* recomputed for it.
C3_DirectorySelectStops ==
    [][\A row \in Rows :
          (last'.op = "double_click" /\ DoubleClick(row)
                /\ IsDirEntry(row)) =>
              /\ index' = -1
              /\ ~is_playing'
              /\ location' = EntryPath(row)
              /\ files_list' = files(location', removed)]_vars

\* C4: end of media while playing the last row of the list ends Stopped:
\* index = -1, not playing, empty title, both times 0 (and so the selection
\* does not wrap to row 0).
C4_EndOfMediaOnLastStops ==
    [][(last'.op = "finished" /\ EndOfMedia /\ is_playing /\ index >= 0
            /\ index = Len(files_list) - 1) =>
          /\ index' = -1
          /\ ~is_playing'
          /\ title' = <<>>
          /\ current' = 0
          /\ length' = 0]_vars

\* C5: in every reachable state of the running program, the skip-back
\* button is enabled exactly when a file is loaded and index - 1 is a row of
\* the list, and the skip-forward button exactly when a file is loaded and
\* index + 1 is a row of the list.
C5_SkipButtonsMatchMoves ==
    ~crashed =>
        /\ back_enabled <=>
              (index # -1 /\ index - 1 >= 0 /\ index - 1 < Len(files_list))
        /\ forward_enabled <=>
              (index # -1 /\ index + 1 >= 0 /\ index + 1 < Len(files_list))

\* C6: no sequence of events makes a handler fail.
C6_NoHandlerFails == ~crashed

\* C7: after a mouse release on the volume slider, whatever value v the
\* click computes, the volume and the saved "volume" both are v clamped to
\* 0 .. 100.
C7_VolumeClamped ==
    [][\A pos \in ClickPixels :
          (last'.op = "change_volume" /\ VolumeBarClick(pos)) =>
              LET v == SliderClickValue(FALSE, pos, SliderPixels, 0, 100)
              IN  /\ volume' = Clamp(v, 0, 100)
                  /\ settings'["volume"] = Clamp(v, 0, 100)]_vars

\* C8: a double click on row i holding an audio file, from any state, ends
\* playing with index = i, the title that entry's name, the engine's source
\* that file, and setSource and play the commands issued.
C8_FileSelectPlays ==
    [][\A row \in Rows :
          (last'.op = "double_click" /\ DoubleClick(row)
                /\ ~IsDirEntry(row)) =>
              /\ is_playing'
              /\ index' = row
              /\ title' = files_list[row + 1]
              /\ player_source' = EntryPath(row)
              /\ player_state' = "Playing"
              /\ cmds' = << <<"setSource", EntryPath(row)>>, <<"play">> >>]_vars

\* C8's case: a file was double-clicked in the last row of the home folder
C8_Witness ==
    /\ last = Event("double_click", 2)
    /\ location = HOME
    /\ index = 2
    /\ is_playing
    /\ title = N_B
    /\ player_source = <<N_h, N_B>>

\* C9: Stop with a file loaded, playing or paused, leaves index = -1, not
\* playing, both times 0 and an empty title, having issued the engine's
\* stop.
C9_StopResets ==
    [][(last'.op = "stop" /\ ClickStop /\ index # -1) =>
          /\ index' = -1
          /\ ~is_playing'
          /\ current' = 0
          /\ length' = 0
          /\ title' = <<>>
          /\ cmds' = << <<"stop">> >>
          /\ player_state' = "Stopped"]_vars

\* C9's case: Stop was pressed after the engine had reported a position and
\* a duration
C9_Witness ==
    /\ last.op = "stop"
    /\ cmds = << <<"stop">> >>
    /\ index = -1
    /\ current = 0
    /\ length = 0
    /\ player_source # NoSource

\* C10: in every reachable state the saved location (the home folder when
\* none is saved) is the current folder; and when the startup, a refresh or
\* go_up finds that the folder to list does not exist, the current folder
\* is the home folder and the home folder is saved.
C10_LocationFallsBackAndIsSaved ==
    /\ value(settings, "location", HOME) = location
    /\ (last.op \in {"startup", "update_files", "go_up"} /\ last.arg = 0) =>
          /\ location = HOME
          /\ "location" \in DOMAIN settings
          /\ settings["location"] = HOME

\* C10's case: a refresh found the folder shown removed
C10_Witness ==
    /\ last = Event("update_files", 0)
    /\ LiveDir \in removed
    /\ location = HOME
    /\ settings["location"] = HOME

\* the extensions of the files the lister shows
AudioExtensions ==
    { <<97, 97, 99>>, <<97, 105, 102>>, <<97, 105, 102, 102>>,
      <<102, 108, 97, 99>>, <<109, 112, 51>>, <<111, 103, 103>>,
      <<119, 97, 118>> }

\* what follows the last "." of a name; nothing when the name has no "."
ExtensionOf(name) ==
    LET i == RFindDot(name)
    IN  IF i = 0 THEN <<>> ELSE SubSeq(name, i + 1, Len(name))

\* the entries of a folder the list is to show
Wanted(scan) ==
    {e \in scan : /\ ~(Len(e.name) > 0 /\ e.name[1] = Dot)
                  /\ (e.is_dir \/ Lower(ExtensionOf(e.name)) \in AudioExtensions)}

\* the entry of this name is a folder
IsFolderIn(scan, name) == Dir(name) \in scan

\* C11: whatever the folder holds, the list shown (made by the startup or
\* by a refresh) holds exactly the names of the entries that do not start
\* with "." and are folders or files whose lower-cased extension is one of
\* aac, aif, aiff, flac, mp3, ogg, wav, each once; every folder comes before
\* every file, and within the folders and within the files the lower-cased
\* names ascend; and the startup's and the refresh's listings are equal.
C11_ListerOutput ==
    /\ {files_list[i] : i \in 1..Len(files_list)} = {e.name : e \in Wanted(scanned)}
    /\ Len(files_list) = Cardinality(Wanted(scanned))
    /\ \A i, j \in 1..Len(files_list) :
          i < j =>
            /\ ~(~IsFolderIn(scanned, files_list[i]) /\ IsFolderIn(scanned, files_list[j]))
            /\ (IsFolderIn(scanned, files_list[i]) = IsFolderIn(scanned, files_list[j]))
                  => StrLess(Lower(files_list[i]), Lower(files_list[j]))
    /\ Names(entries_sorted_of(scanned)) = listed_of(scanned)

\* C11's case: a refresh listed a folder holding hidden entries, folders
\* and audio and other files, whose order by character codes differs
C11_Witness ==
    /\ last.op = "update_files"
    /\ scanned = LabEntries
    /\ files_list = << <<97, 108, 112, 104, 97>>, <<100, 46, 116, 120, 116>>,
                       <<90, 101, 100>>, <<98, 46, 119, 97, 118>>,
                       <<67, 46, 79, 103, 103>> >>

\* C12: a click on play/pause with no file loaded (index = -1), also right
\* after the startup, does nothing: is_playing stays false, no engine
\* command is issued and the rest of the state stays.
C12_ToggleInStoppedIsNoOp ==
    [][(last'.op = "play_pause" /\ ClickPlayPause /\ index = -1) =>
          /\ ~is_playing'
          /\ cmds' = <<>>
          /\ State' = Entry]_vars

\* the step is what double_click does on the entry at row when a file is
\* loaded and row is a row of the list, and changes nothing otherwise
SkipsLikeSelect(row) ==
    IF index # -1 /\ row \in Rows
    THEN State' = double_click(setCurrentRow(Entry, row), row, removed)
    ELSE State' = Entry

\* C13: skip-forward (skip-back) with a file loaded acts as a double click
\* on row index + 1 (index - 1) when that is a row of the list displayed
\* and changes nothing otherwise; with no file loaded both change nothing.
C13_SkipIsSelect ==
    [][/\ (last'.op = "next" /\ ClickForward) => SkipsLikeSelect(index + 1)
       /\ (last'.op = "previous" /\ ClickBack) => SkipsLikeSelect(index - 1)]_vars

\* C14: home, go_up and a refresh leave index, is_playing, title, both
\* times, volume and is_muted as they are and issue no engine command: of
\* the state only the folder, the list and the saved location change.
C14_NavigationKeepsPlayback ==
    [][(last'.op \in {"home", "go_up", "update_files"}
            /\ (ClickHome \/ ClickUp \/ ClickRefresh)) =>
          /\ UNCHANGED <<index, is_playing, title, current, length, volume,
                         is_muted>>
          /\ cmds' = <<>>
          /\ UNCHANGED <<back_enabled, stop_enabled, play_pause_enabled,
                         forward_enabled, volume_bar, player_source,
                         player_state, output_volume, output_muted, crashed>>
          /\ DOMAIN settings' \subseteq DOMAIN settings \cup {"location"}
          /\ \A k \in DOMAIN settings \ {"location"} :
                k \in DOMAIN settings' /\ settings'[k] = settings[k]]_vars

\* C14's case: go_up from the home folder while its last file plays
C14_Witness ==
    /\ last.op = "go_up"
    /\ location = Root
    /\ files_list = <<N_h>>
    /\ is_playing
    /\ index = 2
    /\ title = N_B
    /\ player_state = "Playing"

\* C15: mute flips is_muted, sets the engine's muted flag to the new
\* is_muted and leaves the volume, the saved volume and the playback state
\* as they are; the engine's muted flag equals is_muted in every reachable
\* state; and a second mute gives back the state before the first.
C15_MuteOnlyMutes ==
    /\ [](output_muted = is_muted)
    /\ [][(last'.op = "mute" /\ ClickMute) =>
              /\ is_muted' = ~is_muted
              /\ output_muted' = is_muted'
              /\ cmds' = << <<"setMuted", is_muted'>> >>
              /\ [State' EXCEPT !.cmds = <<>>] =
                    [Entry EXCEPT !.is_muted = ~is_muted,
                                  !.output_muted = ~is_muted]
              /\ [mute(State') EXCEPT !.cmds = <<>>] = Entry]_vars

\* C15's case: muted while a file plays at volume 0
C15_Witness ==
    /\ last.op = "mute"
    /\ is_muted
    /\ output_muted
    /\ is_playing
    /\ index # -1
    /\ volume = 0
    /\ settings["volume"] = 0

\* C16: a click on play/pause with a file loaded flips is_playing, issuing
\* the engine's pause when it was playing and play when it was paused,
\* leaves index, title, times and folder as they are, and a second click
\* gives back the is_playing before the first.
C16_ToggleFlips ==
    [][(last'.op = "play_pause" /\ ClickPlayPause /\ index # -1) =>
          /\ is_playing' = ~is_playing
          /\ cmds' = IF is_playing THEN << <<"pause">> >> ELSE << <<"play">> >>
          /\ UNCHANGED <<index, title, current, length, location, files_list,
                         settings>>
          /\ play_pause(State').is_playing = is_playing]_vars

\* C16's case: a playing file was paused
C16_Witness ==
    /\ last.op = "play_pause"
    /\ index # -1
    /\ ~is_playing
    /\ cmds = << <<"pause">> >>
    /\ player_state = "Paused"

\* the step issues the one engine command setPosition(t * 1000) and changes
\* nothing of the state
Seeks(t) ==
    /\ cmds' = << <<"setPosition", t * 1000>> >>
    /\ [State' EXCEPT !.cmds = <<>>] = Entry

\* C17: a seek to second t (the time slider dragged or clicked) issues the
\* one engine command setPosition(t * 1000) and changes neither current nor
\* anything else of the state; current changes only in update_current and
\* in stop.
C17_SeekOnlyCommands ==
    [][/\ \A t \in 0 .. MaxSeconds :
             (last'.op = "change_time" /\ TimeBarMoved(t)) => Seeks(t)
       /\ \A pos \in ClickPixels :
             (last'.op = "change_time" /\ TimeBarClick(pos)) =>
                 Seeks(SliderClickValue(TRUE, pos, SliderPixels, 0, length))
       /\ (current' # current) =>
             last'.op \in {"update_current", "stop"}]_vars

\* C17's case: the slider was dragged to the end of a file of which the
\* engine has reported no position beyond its first second
C17_Witness ==
    /\ last.op = "change_time"
    /\ cmds = << <<"setPosition", 1000 * MaxSeconds>> >>
    /\ length = MaxSeconds
    /\ current = 0

\* C18: skip-back, skip-forward and end of media never change the folder or
\* the saved location, and whenever they change the state they load an
\* audio file (setSource on a path that is no folder, then play).
C18_SkipsOnlyLoadFiles ==
    [][(last'.op \in {"previous", "next", "finished"}
            /\ (ClickBack \/ ClickForward \/ EndOfMedia)) =>
          /\ location' = location
          /\ value(settings', "location", HOME) = value(settings, "location", HOME)
          /\ files_list' = files_list
          /\ (index' # index \/ title' # title \/ cmds' # <<>>) =>
                /\ ~is_dir(player_source', removed)
                /\ cmds' = << <<"setSource", player_source'>>, <<"play">> >>]_vars

\* C19: in every reachable state the stop button is enabled exactly when a
\* file is loaded (index is not -1), and the title is empty exactly when
\* none is.
C19_StopEnabledIffLoaded ==
    /\ stop_enabled <=> index # -1
    /\ (title = <<>>) <=> index = -1

\* C19's case: a file is loaded and the folder shown is not the file's, its
\* index being no row of the list
C19_Witness ==
    /\ stop_enabled
    /\ index = 2
    /\ title = N_B
    /\ location = Root
    /\ ~crashed

====
